---- MODULE Spec2Model ----
(***************************************************************************)
(* Model of the stock-data pipeline: process_stock_data (stock_data.rs)    *)
(* followed by prepare_dataset and categorize_price_change (main.rs).      *)
(*                                                                         *)
(* f64 values are pairs <<n, d>>: d > 0 is the reduced fraction n/d,       *)
(* <<1, 0>> is +inf, <<-1, 0>> is -inf and <<0, 0>> is NaN.  Arithmetic    *)
(* follows IEEE-754 for the special values; rounding and the sign of zero  *)
(* are not modelled (finite results are exact).                            *)
(* Option<f64> is a sequence of length 0 (None) or 1 (Some).               *)
(* A HashMap is a function; its enumeration order is a free choice.        *)
(***************************************************************************)
EXTENDS Integers, Sequences, FiniteSets, TLC

\* ------------------------------------------------------------------ bounds
MaxYears == 3
MaxObs == 3
MaxPc == 60

\* ------------------------------------------------------- program constants
AnchorYear == 2022
EarlyMonth == 2
LateMonth == 11
MinDateLen == 7
Percent == 100
SevereDecline == 50
StrongGain == 50

\* --------------------------------------------------------------------- f64
Abs(n) == IF n < 0 THEN -n ELSE n

RECURSIVE Gcd(_, _)
Gcd(a, b) == IF b = 0 THEN a ELSE Gcd(b, a % b)

Norm(n, d) ==
    LET g == Gcd(Abs(n), Abs(d))
        s == IF d < 0 THEN -1 ELSE 1
    IN  <<(s * n) \div g, (s * d) \div g>>

F(n) == <<n, 1>>
NaN == <<0, 0>>
PosInf == <<1, 0>>
NegInf == <<-1, 0>>

IsNaN(x) == x = NaN
IsFin(x) == x[2] # 0
Sgn(x) == IF x[1] > 0 THEN 1 ELSE IF x[1] < 0 THEN -1 ELSE 0
Inf(s) == IF s < 0 THEN NegInf ELSE PosInf

FNeg(x) == <<-x[1], x[2]>>

FAdd(x, y) ==
    IF IsNaN(x) \/ IsNaN(y) THEN NaN
    ELSE IF IsFin(x) /\ IsFin(y) THEN Norm(x[1] * y[2] + y[1] * x[2], x[2] * y[2])
    ELSE IF IsFin(x) THEN y
    ELSE IF IsFin(y) THEN x
    ELSE IF x = y THEN x ELSE NaN

FSub(x, y) == FAdd(x, FNeg(y))

FMul(x, y) ==
    IF IsNaN(x) \/ IsNaN(y) THEN NaN
    ELSE IF IsFin(x) /\ IsFin(y) THEN Norm(x[1] * y[1], x[2] * y[2])
    ELSE IF Sgn(x) = 0 \/ Sgn(y) = 0 THEN NaN
    ELSE Inf(Sgn(x) * Sgn(y))

FDiv(x, y) ==
    IF IsNaN(x) \/ IsNaN(y) THEN NaN
    ELSE IF IsFin(x) /\ IsFin(y) THEN
        IF y[1] # 0 THEN Norm(x[1] * y[2], x[2] * y[1])
        ELSE IF x[1] = 0 THEN NaN ELSE Inf(Sgn(x))
    ELSE IF IsFin(x) THEN F(0)
    ELSE IF IsFin(y) THEN Inf(IF Sgn(y) < 0 THEN -Sgn(x) ELSE Sgn(x))
    ELSE NaN

FLt(x, y) ==
    IF IsNaN(x) \/ IsNaN(y) THEN FALSE
    ELSE IF IsFin(x) /\ IsFin(y) THEN x[1] * y[2] < y[1] * x[2]
    ELSE IF IsFin(x) THEN y = PosInf
    ELSE IF IsFin(y) THEN x = NegInf
    ELSE x = NegInf /\ y = PosInf

FGt(x, y) == FLt(y, x)

FNe(x, y) == IsNaN(x) \/ IsNaN(y) \/ x # y

RECURSIVE FSum(_)
FSum(s) == IF s = <<>> THEN F(0) ELSE FAdd(FSum(SubSeq(s, 1, Len(s) - 1)), s[Len(s)])

None == <<>>
Some(x) == <<x>>
is_none(o) == o = <<>>
unwrap(o) == o[1]

\* ---------------------------------------------------------------- HashMap
EmptyMap == <<>>
Put(m, k, v) == [x \in (DOMAIN m) \cup {k} |-> IF x = k THEN v ELSE m[x]]
GetOr(m, k, dflt) == IF k \in DOMAIN m THEN m[k] ELSE dflt

\* value.parse::<f64>().unwrap_or(0.0) on the text of a CSV cell
ParseF64(text) ==
    CASE text = "0" -> F(0)
      [] text = "1" -> F(1)
      [] text = "2" -> F(2)
      [] text = "3" -> F(3)
      [] text = "4" -> F(4)
      [] text = "5" -> F(5)
      [] text = "8" -> F(8)
      [] text = "NaN" -> NaN
      [] text = "inf" -> PosInf
      [] OTHER -> F(0)

\* ------------------------------------------------------------- read_csv
\* A metric file is the sequence of its data records; a record is
\* [ticker |-> text of column 0, cells |-> texts of the columns after it].
YearsOfRecord(cells) ==
    [y \in {AnchorYear - (i - 1) : i \in 1..Len(cells)} |-> ParseF64(cells[AnchorYear - y + 1])]

RECURSIVE read_csv(_)
read_csv(records) ==
    IF records = <<>> THEN EmptyMap
    ELSE LET data == read_csv(SubSeq(records, 1, Len(records) - 1))
             record == records[Len(records)]
         IN  IF record.ticker = "" THEN data
             ELSE Put(data, record.ticker, YearsOfRecord(record.cells))

\* ------------------------------------------------- calculate_price_changes
\* A price file is [headers |-> ticker names of the columns from index 2 on,
\* records |-> sequence of [date |-> [len, year, month], prices |-> texts of
\* the columns from index 2 on]]; year and month are what date[..4] and
\* date[5..7] parse to.
PushObs(data, ticker, year, month, price) ==
    LET years == GetOr(data, ticker, EmptyMap)
        prices == GetOr(years, year, <<>>)
    IN  Put(data, ticker, Put(years, year, Append(prices, <<month, price>>)))

RECURSIVE PushRecord(_, _, _, _)
PushRecord(data, headers, record, k) ==
    IF k > Len(headers) THEN data
    ELSE PushRecord(
            PushObs(data, headers[k], record.date.year, record.date.month,
                    ParseF64(record.prices[k])),
            headers, record, k + 1)

RECURSIVE CollectObs(_, _)
CollectObs(headers, records) ==
    IF records = <<>> THEN EmptyMap
    ELSE LET data == CollectObs(headers, SubSeq(records, 1, Len(records) - 1))
             record == records[Len(records)]
         IN  IF record.date.len < MinDateLen THEN data
             ELSE PushRecord(data, headers, record, 1)

\* fault injection: January alone counts as early (month < 2)
RECURSIVE first_month_prices_strict(_)
first_month_prices_strict(prices) ==
    IF prices = <<>> THEN <<>>
    ELSE LET rest == first_month_prices_strict(SubSeq(prices, 1, Len(prices) - 1))
             obs == prices[Len(prices)]
         IN  IF obs[1] < EarlyMonth THEN Append(rest, obs[2]) ELSE rest

RECURSIVE first_month_prices(_)
first_month_prices(prices) ==
    IF prices = <<>> THEN <<>>
    ELSE LET rest == first_month_prices(SubSeq(prices, 1, Len(prices) - 1))
             obs == prices[Len(prices)]
         IN  IF obs[1] <= EarlyMonth THEN Append(rest, obs[2]) ELSE rest

RECURSIVE last_month_prices(_)
last_month_prices(prices) ==
    IF prices = <<>> THEN <<>>
    ELSE LET rest == last_month_prices(SubSeq(prices, 1, Len(prices) - 1))
             obs == prices[Len(prices)]
         IN  IF obs[1] <= EarlyMonth THEN rest
             ELSE IF obs[1] >= LateMonth THEN Append(rest, obs[2]) ELSE rest

percent_change(prices) ==
    LET first == first_month_prices(prices)
        last == last_month_prices(prices)
        first_avg == FDiv(FSum(first), F(Len(first)))
        last_avg == FDiv(FSum(last), F(Len(last)))
    IN  FMul(FDiv(FSub(last_avg, first_avg), first_avg), F(Percent))

HasBothBuckets(prices) ==
    first_month_prices(prices) # <<>> /\ last_month_prices(prices) # <<>>

calculate_price_changes(file) ==
    LET data == CollectObs(file.headers, file.records)
    IN  [ticker \in DOMAIN data |->
            [year \in {y \in DOMAIN data[ticker] : HasBothBuckets(data[ticker][y])} |->
                percent_change(data[ticker][year])]]

\* ------------------------------------------------------ process_stock_data
\* fault injection: a missing ticker or year is not replaced by 0.0
Lookup_nan_default(series, ticker, year) ==
    IF ticker \in DOMAIN series
    THEN GetOr(series[ticker], year, NaN)
    ELSE NaN

Lookup(series, ticker, year) ==
    IF ticker \in DOMAIN series
    THEN GetOr(series[ticker], year, F(0))
    ELSE F(0)

\* fault injection: the division without its zero guard
profit_margin_unguarded(profit_value, revenue_value) ==
    FDiv(profit_value, revenue_value)

profit_margin(profit_value, revenue_value) ==
    IF FNe(revenue_value, F(0)) THEN FDiv(profit_value, revenue_value) ELSE F(0)

roa(margin, revenue_value, asset_value) ==
    IF FNe(asset_value, F(0)) THEN FDiv(FMul(margin, revenue_value), asset_value) ELSE F(0)

\* the StockData pushed for one (ticker, year) of the assets series
StockData(s, pcs, ticker, year) ==
    LET asset_value == s.assets[ticker][year]
        profit_value == Lookup(s.profit, ticker, year)
        revenue_value == Lookup(s.revenue, ticker, year)
        margin == profit_margin(profit_value, revenue_value)
    IN  [ticker |-> ticker,
         year |-> year,
         assets |-> asset_value,
         cash |-> Lookup(s.cash, ticker, year),
         equity |-> Lookup(s.equity, ticker, year),
         profit |-> profit_value,
         revenue |-> revenue_value,
         price_change |-> Lookup(pcs, ticker, year),
         profit_margin |-> margin,
         roa |-> roa(margin, revenue_value, asset_value),
         change_in_revenue |-> None,
         change_in_profit_margin |-> None,
         change_in_roa |-> None]

\* for i in 1..stock_data.len(): the deltas against the record one index before
WithChanges(stock_data) ==
    [i \in 1..Len(stock_data) |->
        IF i = 1 THEN stock_data[i]
        ELSE [stock_data[i] EXCEPT
                !.change_in_revenue =
                    Some(FSub(stock_data[i].revenue, stock_data[i - 1].revenue)),
                !.change_in_profit_margin =
                    Some(FSub(stock_data[i].profit_margin, stock_data[i - 1].profit_margin)),
                !.change_in_roa =
                    Some(FSub(stock_data[i].roa, stock_data[i - 1].roa))]]

\* the orders in which `for (&year, &asset_value) in years` can enumerate a map
Enumerations(keys) ==
    {order \in [1..Cardinality(keys) -> keys] :
        \A i, j \in 1..Cardinality(keys) : i # j => order[i] # order[j]}

TickerRecords(s, pcs, ticker, order) ==
    WithChanges([i \in 1..Len(order) |-> StockData(s, pcs, ticker, order[i])])

\* --------------------------------------------------------- prepare_dataset
\* fault injection: the bucket bounds taken inclusive (<=)
categorize_price_change_inclusive(pc_value) ==
    IF ~IsNaN(pc_value) /\ ~FGt(pc_value, F(-SevereDecline)) THEN 0
    ELSE IF ~IsNaN(pc_value) /\ ~FGt(pc_value, F(0)) THEN 1
    ELSE IF ~IsNaN(pc_value) /\ ~FGt(pc_value, F(StrongGain)) THEN 2
    ELSE 3

categorize_price_change(pc_value) ==
    IF FLt(pc_value, F(-SevereDecline)) THEN 0
    ELSE IF FLt(pc_value, F(0)) THEN 1
    ELSE IF FLt(pc_value, F(StrongGain)) THEN 2
    ELSE IF FGt(pc_value, F(StrongGain)) THEN 3
    ELSE 3

\* fault injection: the i == 1 test left out
Skips_without_first(records, i) ==
    \/ is_none(records[i].change_in_revenue)
    \/ is_none(records[i].change_in_profit_margin)
    \/ is_none(records[i].change_in_roa)

\* the `continue` test of the inner loop; i is the 0-based index of `current`
Skips(records, i) ==
    \/ i = 1
    \/ is_none(records[i].change_in_revenue)
    \/ is_none(records[i].change_in_profit_margin)
    \/ is_none(records[i].change_in_roa)

\* a row is built for index i, and one of its three unwrap() calls panics
Panics(records, i) ==
    /\ ~Skips(records, i)
    /\ \/ is_none(records[i + 1].change_in_revenue)
       \/ is_none(records[i + 1].change_in_profit_margin)
       \/ is_none(records[i + 1].change_in_roa)

\* fault injection: the ratio without its zero guard
to_assets_unguarded(value, asset_value) == FDiv(value, asset_value)

to_assets(value, asset_value) ==
    IF FNe(asset_value, F(0)) THEN FDiv(value, asset_value) ELSE F(0)

FeatureRow(previous, current) ==
    LET delta_revenue == unwrap(current.change_in_revenue)
        delta_profit_margin == unwrap(current.change_in_profit_margin)
        delta_roa == unwrap(current.change_in_roa)
        delta_cash_to_assets ==
            FSub(to_assets(current.cash, current.assets),
                 to_assets(previous.cash, previous.assets))
        delta_equity_to_assets ==
            FSub(to_assets(current.equity, current.assets),
                 to_assets(previous.equity, previous.assets))
    IN  <<delta_revenue, delta_profit_margin, delta_roa,
          delta_cash_to_assets, delta_equity_to_assets,
          FMul(delta_revenue, delta_profit_margin)>>

\* fault injection: the label taken from the previous record
RowLabel_previous(previous, current) == categorize_price_change(previous.price_change)

RowLabel(previous, current) == categorize_price_change(current.price_change)

\* 0-based indices of `current` in 1..records.len() that reach features.push,
\* up to (not including) the first index whose unwrap() panics
FirstPanic(records) ==
    LET bad == {i \in 1..(Len(records) - 1) : Panics(records, i)}
    IN  IF bad = {} THEN Len(records)
        ELSE CHOOSE i \in bad : \A j \in bad : i <= j

RECURSIVE Emitted(_, _)
Emitted(records, i) ==
    IF i < 1 THEN <<>>
    ELSE LET before == Emitted(records, i - 1)
         IN  IF Skips(records, i) THEN before ELSE Append(before, i)

EmittedIndices(records) == Emitted(records, FirstPanic(records) - 1)

\* ------------------------------------------------------------------ state
VARIABLES
    input,           \* the files on disk, or a dataset built by hand by a caller
    pc,              \* position in main / in the caller of prepare_dataset
    price_changes,   \* calculate_price_changes(price_file)
    series,          \* assets, cash, equity, profit, revenue as read so far
    loaded,          \* how many of the five metric files have been read
    combined_data,   \* ticker -> Vec<StockData>
    features,        \* Vec<Vec<f64>> of prepare_dataset
    labels,          \* Vec<u8> of prepare_dataset
    origin,          \* history: <<ticker, 0-based index of current>> of each pushed row
    visited,         \* tickers the outer loop of prepare_dataset has gone through
    run,             \* which run of the pipeline this is
    first_output,    \* <<features, labels>> returned by the first run
    price_change_arg,\* argument of a direct call of categorize_price_change
    category         \* its result

vars == <<input, pc, price_changes, series, loaded, combined_data, features, labels,
          origin, visited, run, first_output, price_change_arg, category>>

FileOrder == <<"assets", "cash", "equity", "profit", "revenue">>

NoSeries == [assets |-> EmptyMap, cash |-> EmptyMap, equity |-> EmptyMap,
             profit |-> EmptyMap, revenue |-> EmptyMap]

\* ----------------------------------------------------------------- inputs
Cyc(pat, k) == pat[((k - 1) % Len(pat)) + 1]

MetricRecord(ticker, n, pat, shift) ==
    [ticker |-> ticker, cells |-> [c \in 1..n |-> Cyc(pat, c + shift)]]

\* a rectangular file: every record has n value columns
MetricFile(tickers, n, pat) ==
    [r \in 1..Len(tickers) |-> MetricRecord(tickers[r], n, pat, r - 1)]

Less(n) == IF n = 0 THEN 0 ELSE n - 1

\* cells[k] are the price texts of record k, one per header
PriceFile(headers, dates, cells) ==
    [headers |-> headers,
     records |-> [k \in 1..Len(dates) |-> [date |-> dates[k], prices |-> cells[k]]]]

PatCells(pat, n, ncols) == [k \in 1..n |-> [j \in 1..ncols |-> Cyc(pat, k + j - 1)]]

Date(year, month) == [len |-> 10, year |-> year, month |-> month]
ShortDate == [len |-> 4, year |-> AnchorYear, month |-> 0]

FullYearDates ==
    <<Date(AnchorYear, 1), Date(AnchorYear, 6), Date(AnchorYear, 12),
      Date(AnchorYear - 1, 2), Date(AnchorYear - 1, 11),
      Date(AnchorYear - 2, 1), Date(AnchorYear - 2, 12)>>

FullYearCells ==
    <<<<"2", "0">>, <<"8", "8">>, <<"1", "4">>,
      <<"2", "0">>, <<"3", "0">>,
      <<"4", "4">>, <<"5", "1">>>>

FirstColumn(cells) == [k \in 1..Len(cells) |-> <<cells[k][1]>>]

Variants ==
    {"plain", "zero_assets", "zero_revenue", "nan_assets", "inf_assets",
     "cash_lacks_A", "cash_short", "equity_lacks_B", "revenue_short",
     "profit_unparsable", "assets_lack_B", "assets_short", "assets_repeat_A",
     "prices_lack_B"}

\* the files of one run: n value columns in the assets file, one variant
MetricInput(n, v) ==
    LET both == <<"A", "B">>
        assets ==
            CASE v = "zero_assets" -> MetricFile(both, n, <<"0", "2", "0">>)
              [] v = "nan_assets" -> MetricFile(both, n, <<"NaN", "2", "0">>)
              [] v = "inf_assets" -> MetricFile(both, n, <<"inf", "2", "0">>)
              [] v = "assets_lack_B" -> MetricFile(<<"A">>, n, <<"4", "2", "8">>)
              [] v = "assets_short" -> MetricFile(both, Less(n), <<"4", "2", "8">>)
              [] v = "assets_repeat_A" -> MetricFile(<<"A", "", "A">>, n, <<"4", "2", "8">>)
              [] OTHER -> MetricFile(both, n, <<"4", "2", "8">>)
        cash ==
            CASE v = "cash_lacks_A" -> MetricFile(<<"B">>, n, <<"1", "2", "4">>)
              [] v = "cash_short" -> MetricFile(both, Less(n), <<"1", "2", "4">>)
              [] OTHER -> MetricFile(both, n, <<"1", "2", "4">>)
        equity ==
            CASE v = "equity_lacks_B" -> MetricFile(<<"A">>, n, <<"2", "1", "5">>)
              [] OTHER -> MetricFile(both, n, <<"2", "1", "5">>)
        profit ==
            CASE v = "profit_unparsable" -> MetricFile(both, n, <<"n/a", "1", "">>)
              [] OTHER -> MetricFile(both, n, <<"1", "3", "2">>)
        revenue ==
            CASE v \in {"zero_revenue", "nan_assets", "inf_assets"} ->
                    MetricFile(both, n, <<"0", "3", "0">>)
              [] v = "zero_assets" -> MetricFile(both, n, <<"2", "0", "1">>)
              [] v = "revenue_short" -> MetricFile(both, Less(n), <<"2", "4", "1">>)
              [] OTHER -> MetricFile(both, n, <<"2", "4", "1">>)
        price ==
            CASE v = "prices_lack_B" ->
                    PriceFile(<<"A">>, FullYearDates, FirstColumn(FullYearCells))
              [] OTHER -> PriceFile(both, FullYearDates, FullYearCells)
    IN  [kind |-> "files",
         files |-> [assets |-> assets, cash |-> cash, equity |-> equity,
                    profit |-> profit, revenue |-> revenue],
         price_file |-> price,
         dataset |-> EmptyMap]

MetricInputs == {MetricInput(n, v) : n \in 0..MaxYears, v \in Variants}

\* price files of up to MaxObs records over these dates; month 0 is what a
\* month text that does not parse becomes
Dates ==
    {Date(AnchorYear, EarlyMonth), Date(AnchorYear, EarlyMonth + 1),
     Date(AnchorYear, LateMonth - 1), Date(AnchorYear, LateMonth),
     Date(AnchorYear - 1, 0), Date(AnchorYear - 1, 12), ShortDate}

DateSeqs == UNION {[1..n -> Dates] : n \in 0..MaxObs}

PricePats == {<<"2", "3", "1">>, <<"0", "4", "2", "5">>}

PriceInput(dates, pat) ==
    [MetricInput(2, "assets_lack_B") EXCEPT
        !.price_file = PriceFile(<<"A", "B">>, dates, PatCells(pat, Len(dates), 2))]

PriceInputs == {PriceInput(dates, pat) : dates \in DateSeqs, pat \in PricePats}

\* datasets a caller builds by hand and passes to prepare_dataset, as
\* test_change_calculations does
FakeRecord(year, assets, cash, equity, profit, revenue, price_change) ==
    LET margin == profit_margin(F(profit), F(revenue))
    IN  [ticker |-> "FAKE", year |-> year,
         assets |-> F(assets), cash |-> F(cash), equity |-> F(equity),
         profit |-> F(profit), revenue |-> F(revenue),
         price_change |-> F(price_change),
         profit_margin |-> margin,
         roa |-> roa(margin, F(revenue), F(assets)),
         change_in_revenue |-> None,
         change_in_profit_margin |-> None,
         change_in_roa |-> None]

Fake2020 == FakeRecord(2020, 0, 10, 20, 30, 400, 60)
Fake2021 == FakeRecord(2021, 100, 50, 30, 20, 100, 0)
Fake2022 == FakeRecord(2022, 200, 100, 60, 50, 200, 0)

FakeSequences ==
    {<<Fake2021, Fake2022>>, <<Fake2020, Fake2021, Fake2022>>,
     <<Fake2021, Fake2022, Fake2020>>}

DeltaFields == {"change_in_revenue", "change_in_profit_margin", "change_in_roa"}

\* the fields of `set` filled in by the caller, the others left None
Filled(records, i, set) ==
    LET full == IF i = 1 THEN [records[i] EXCEPT
                                  !.change_in_revenue = Some(F(0)),
                                  !.change_in_profit_margin = Some(F(0)),
                                  !.change_in_roa = Some(F(0))]
                ELSE WithChanges(records)[i]
    IN  [f \in DOMAIN records[i] |-> IF f \in set THEN full[f] ELSE records[i][f]]

HandBuilt(records, fill) ==
    [kind |-> "dataset",
     files |-> [assets |-> <<>>, cash |-> <<>>, equity |-> <<>>,
                profit |-> <<>>, revenue |-> <<>>],
     price_file |-> PriceFile(<<>>, <<>>, <<>>),
     dataset |-> [t \in {"FAKE"} |-> [i \in 1..Len(records) |-> Filled(records, i, fill[i])]]]

Fills(n) ==
    {fill \in [1..n -> SUBSET DeltaFields] : fill[1] \in {{}, DeltaFields}}

HandBuiltInputs ==
    UNION {{HandBuilt(records, fill) : fill \in Fills(Len(records))} :
              records \in FakeSequences}

\* ------------------------------------------------------------------- Init
Start(in) ==
    /\ input = in
    /\ pc = "start"
    /\ price_changes = EmptyMap
    /\ series = NoSeries
    /\ loaded = 0
    /\ combined_data = EmptyMap
    /\ features = <<>>
    /\ labels = <<>>
    /\ origin = <<>>
    /\ visited = {}
    /\ run = 1
    /\ first_output = <<>>
    /\ price_change_arg = F(0)
    /\ category = 0

Init == \E in \in MetricInputs \cup PriceInputs \cup HandBuiltInputs : Start(in)

\* ---------------------------------------------------------------- actions
\* let price_changes = calculate_price_changes(price_file)?
CalculatePriceChanges ==
    /\ pc = "start"
    /\ input.kind = "files"
    /\ price_changes' = calculate_price_changes(input.price_file)
    /\ pc' = "read"
    /\ UNCHANGED <<input, series, loaded, combined_data, features, labels, origin,
                   visited, run, first_output, price_change_arg, category>>

\* let assets = read_csv(financial_files[0].0)? ... revenue = read_csv(financial_files[4].0)?
ReadCsv ==
    /\ pc = "read"
    /\ loaded < Len(FileOrder)
    /\ LET name == FileOrder[loaded + 1]
       IN  series' = [series EXCEPT ![name] = read_csv(input.files[name])]
    /\ loaded' = loaded + 1
    /\ pc' = IF loaded' = Len(FileOrder) THEN "combine" ELSE "read"
    /\ UNCHANGED <<input, price_changes, combined_data, features, labels, origin,
                   visited, run, first_output, price_change_arg, category>>

\* one iteration of `for (ticker, years) in &assets`
CombineTicker ==
    /\ pc = "combine"
    /\ \E ticker \in (DOMAIN series.assets) \ (DOMAIN combined_data) :
          \E order \in Enumerations(DOMAIN series.assets[ticker]) :
             combined_data' =
                Put(combined_data, ticker, TickerRecords(series, price_changes, ticker, order))
    /\ UNCHANGED <<input, pc, price_changes, series, loaded, features, labels, origin,
                   visited, run, first_output, price_change_arg, category>>

\* Ok(combined_data), handed by main to prepare_dataset
ReturnCombined ==
    /\ pc = "combine"
    /\ DOMAIN combined_data = DOMAIN series.assets
    /\ pc' = "prepare"
    /\ UNCHANGED <<input, price_changes, series, loaded, combined_data, features, labels,
                   origin, visited, run, first_output, price_change_arg, category>>

\* a caller passes a dataset it built itself to prepare_dataset
PassHandBuilt ==
    /\ pc = "start"
    /\ input.kind = "dataset"
    /\ combined_data' = input.dataset
    /\ pc' = "prepare"
    /\ UNCHANGED <<input, price_changes, series, loaded, features, labels, origin,
                   visited, run, first_output, price_change_arg, category>>

RowsOf(records, indices) ==
    [k \in 1..Len(indices) |-> FeatureRow(records[indices[k]], records[indices[k] + 1])]

LabelsOf(records, indices) ==
    [k \in 1..Len(indices) |-> RowLabel(records[indices[k]], records[indices[k] + 1])]

OriginsOf(ticker, indices) ==
    [k \in 1..Len(indices) |-> <<ticker, indices[k]>>]

\* one iteration of `for (_, records) in stock_data` that runs to its end
PrepareTicker ==
    /\ pc = "prepare"
    /\ \E ticker \in (DOMAIN combined_data) \ visited :
          LET records == combined_data[ticker]
              indices == EmittedIndices(records)
          IN  /\ FirstPanic(records) = Len(records)
              /\ features' = features \o RowsOf(records, indices)
              /\ labels' = labels \o LabelsOf(records, indices)
              /\ origin' = origin \o OriginsOf(ticker, indices)
              /\ visited' = visited \cup {ticker}
    /\ UNCHANGED <<input, pc, price_changes, series, loaded, combined_data, run,
                   first_output, price_change_arg, category>>

\* one iteration of the outer loop in which an unwrap() of a None delta panics
PrepareTickerPanics ==
    /\ pc = "prepare"
    /\ \E ticker \in (DOMAIN combined_data) \ visited :
          LET records == combined_data[ticker]
              indices == EmittedIndices(records)
          IN  /\ FirstPanic(records) < Len(records)
              /\ features' = features \o RowsOf(records, indices)
              /\ labels' = labels \o LabelsOf(records, indices)
              /\ origin' = origin \o OriginsOf(ticker, indices)
    /\ pc' = "panicked"
    /\ UNCHANGED <<input, price_changes, series, loaded, combined_data, visited, run,
                   first_output, price_change_arg, category>>

\* DenseMatrix::from_2d_vec(&features) and the return of (feature_matrix, labels)
ReturnFeatures ==
    /\ pc = "prepare"
    /\ visited = DOMAIN combined_data
    /\ pc' = "done"
    /\ UNCHANGED <<input, price_changes, series, loaded, combined_data, features, labels,
                   origin, visited, run, first_output, price_change_arg, category>>

\* DenseMatrix::from_2d_vec is library code: given no rows, a release that
\* reads the column count off the first row panics
EmptyMatrixPanics ==
    /\ pc = "prepare"
    /\ visited = DOMAIN combined_data
    /\ features = <<>>
    /\ pc' = "panicked"
    /\ UNCHANGED <<input, price_changes, series, loaded, combined_data, features, labels,
                   origin, visited, run, first_output, price_change_arg, category>>

Next ==
    \/ CalculatePriceChanges
    \/ ReadCsv
    \/ CombineTicker
    \/ ReturnCombined
    \/ PassHandBuilt
    \/ PrepareTicker
    \/ PrepareTickerPanics
    \/ ReturnFeatures
    \/ EmptyMatrixPanics

Spec == Init /\ [][Next]_vars

\* -------------------------------------------- the pipeline run a second time
\* the process is started again on the same files
RunAgain ==
    /\ pc = "done"
    /\ run = 1
    /\ first_output' = <<features, labels>>
    /\ run' = 2
    /\ pc' = "start"
    /\ price_changes' = EmptyMap
    /\ series' = NoSeries
    /\ loaded' = 0
    /\ combined_data' = EmptyMap
    /\ features' = <<>>
    /\ labels' = <<>>
    /\ origin' = <<>>
    /\ visited' = {}
    /\ UNCHANGED <<input, price_change_arg, category>>

TwiceInputs == {MetricInput(n, "plain") : n \in 0..MaxYears}

InitTwice == \E in \in TwiceInputs : Start(in)

NextTwice ==
    \/ CalculatePriceChanges
    \/ ReadCsv
    \/ CombineTicker
    \/ ReturnCombined
    \/ PrepareTicker
    \/ ReturnFeatures
    \/ EmptyMatrixPanics
    \/ RunAgain

SpecTwice == InitTwice /\ [][NextTwice]_vars

\* ------------------------------------ categorize_price_change called alone
\* halves from -MaxPc to MaxPc, and the three special values
CategorizeArgs ==
    {Norm(n, 2) : n \in (-2 * MaxPc)..(2 * MaxPc)} \cup {NaN, PosInf, NegInf}

InitCategorize ==
    /\ input = MetricInput(0, "plain")
    /\ pc = "categorize"
    /\ price_changes = EmptyMap
    /\ series = NoSeries
    /\ loaded = 0
    /\ combined_data = EmptyMap
    /\ features = <<>>
    /\ labels = <<>>
    /\ origin = <<>>
    /\ visited = {}
    /\ run = 1
    /\ first_output = <<>>
    /\ price_change_arg \in CategorizeArgs
    /\ category = 0

Categorize ==
    /\ pc = "categorize"
    /\ category' = categorize_price_change(price_change_arg)
    /\ pc' = "categorized"
    /\ UNCHANGED <<input, price_changes, series, loaded, combined_data, features, labels,
                   origin, visited, run, first_output, price_change_arg>>

NextCategorize == Categorize

SpecCategorize == InitCategorize /\ [][NextCategorize]_vars

\* ============================================================== properties
\* the Dataset process_stock_data has returned
Returned == input.kind = "files" /\ pc \in {"prepare", "done", "panicked"}

AllNone(r) ==
    /\ is_none(r.change_in_revenue)
    /\ is_none(r.change_in_profit_margin)
    /\ is_none(r.change_in_roa)

AllSome(r) ==
    /\ ~is_none(r.change_in_revenue)
    /\ ~is_none(r.change_in_profit_margin)
    /\ ~is_none(r.change_in_roa)

\* the records feature row k was built from
Cur(k) == combined_data[origin[k][1]][origin[k][2] + 1]
Prev(k) == combined_data[origin[k][1]][origin[k][2]]

\* C1: in the returned Dataset every ticker's records are in strictly
\* ascending year order.
C1_YearsAscending ==
    Returned =>
        \A t \in DOMAIN combined_data :
            \A i \in 1..(Len(combined_data[t]) - 1) :
                combined_data[t][i].year < combined_data[t][i + 1].year

\* C2: in the returned Dataset the record of a ticker's earliest year has no
\* delta, and every other record has all three, each the difference to the
\* record of the ticker's immediately preceding year.
C2_DeltasAgainstPrecedingYear ==
    Returned =>
        \A t \in DOMAIN combined_data :
            LET rs == combined_data[t]
            IN  \A i \in 1..Len(rs) :
                    LET earlier == {j \in 1..Len(rs) : rs[j].year < rs[i].year}
                    IN  IF earlier = {} THEN AllNone(rs[i])
                        ELSE LET j == CHOOSE j \in earlier :
                                        \A k \in earlier : rs[k].year <= rs[j].year
                             IN  /\ rs[i].change_in_revenue =
                                        Some(FSub(rs[i].revenue, rs[j].revenue))
                                 /\ rs[i].change_in_profit_margin =
                                        Some(FSub(rs[i].profit_margin, rs[j].profit_margin))
                                 /\ rs[i].change_in_roa = Some(FSub(rs[i].roa, rs[j].roa))

Ratio(x, a) == IF a = F(0) THEN F(0) ELSE FDiv(x, a)

C5_Buckets ==
    pc = "categorized" =>
        LET x == price_change_arg
        IN  /\ category \in 0..3
            /\ IsFin(x) =>
                  category = (IF x[1] < (-50) * x[2] THEN 0
                              ELSE IF x[1] < 0 THEN 1
                              ELSE IF x[1] < 50 * x[2] THEN 2
                              ELSE 3)
            /\ x = NegInf => category = 0
            /\ x = PosInf => category = 3

C5_Witness ==
    /\ pc = "categorized"
    /\ price_change_arg = F(-50)
    /\ category = 1

\* C6 as stated: revenue = 0 gives profit_margin = 0, assets = 0 gives
\* roa = 0, and revenue = 0 with assets != 0 gives roa = 0.
C6_Original ==
    input.kind = "files" =>
        \A t \in DOMAIN combined_data :
            \A i \in 1..Len(combined_data[t]) :
                LET r == combined_data[t][i]
                IN  /\ r.revenue = F(0) => r.profit_margin = F(0)
                    /\ r.assets = F(0) => r.roa = F(0)
                    /\ (r.revenue = F(0) /\ r.assets # F(0)) => r.roa = F(0)

\* C6 as amended: revenue = 0 gives profit_margin = 0, assets = 0 gives
\* roa = 0, and revenue = 0 with assets neither 0 nor NaN gives roa = 0.
C6_ZeroGuards ==
    input.kind = "files" =>
        \A t \in DOMAIN combined_data :
            \A i \in 1..Len(combined_data[t]) :
                LET r == combined_data[t][i]
                IN  /\ r.revenue = F(0) => r.profit_margin = F(0)
                    /\ r.assets = F(0) => r.roa = F(0)
                    /\ (r.revenue = F(0) /\ r.assets \notin {F(0), NaN}) => r.roa = F(0)

C6_Witness ==
    /\ Returned
    /\ \E t \in DOMAIN combined_data :
          \E i \in 1..Len(combined_data[t]) :
             LET r == combined_data[t][i]
             IN  /\ r.revenue = F(0)
                 /\ r.profit # F(0)
                 /\ IsFin(r.assets)
                 /\ r.assets # F(0)
                 /\ r.roa = F(0)
    /\ \E t \in DOMAIN combined_data :
          \E i \in 1..Len(combined_data[t]) :
             LET r == combined_data[t][i]
             IN  r.assets = F(0) /\ r.profit # F(0) /\ r.revenue # F(0) /\ r.roa = F(0)

\* C7: the returned Dataset has exactly one record per (ticker, year) of the
\* assets series and none for any other pair; cash, equity, profit, revenue
\* and price_change of a record are the value of their series for that
\* ticker and year, and 0.0 where the series lacks the ticker or the year.
ValueIn(m, t, y) ==
    IF t \notin DOMAIN m THEN F(0)
    ELSE IF y \notin DOMAIN m[t] THEN F(0)
    ELSE m[t][y]

C7_AssetsDriven ==
    Returned =>
        /\ DOMAIN combined_data = DOMAIN series.assets
        /\ \A t \in DOMAIN combined_data :
              LET rs == combined_data[t]
              IN  /\ Len(rs) = Cardinality(DOMAIN series.assets[t])
                  /\ {rs[i].year : i \in 1..Len(rs)} = DOMAIN series.assets[t]
                  /\ \A i \in 1..Len(rs) :
                        /\ rs[i].ticker = t
                        /\ rs[i].assets = series.assets[t][rs[i].year]
                        /\ rs[i].cash = ValueIn(series.cash, t, rs[i].year)
                        /\ rs[i].equity = ValueIn(series.equity, t, rs[i].year)
                        /\ rs[i].profit = ValueIn(series.profit, t, rs[i].year)
                        /\ rs[i].revenue = ValueIn(series.revenue, t, rs[i].year)
                        /\ rs[i].price_change = ValueIn(price_changes, t, rs[i].year)

C7_Witness ==
    /\ Returned
    /\ "A" \in DOMAIN series.assets
    /\ "A" \notin DOMAIN series.cash
    /\ "B" \in DOMAIN series.cash
    /\ Len(combined_data["A"]) = MaxYears
    /\ \A i \in 1..MaxYears : combined_data["A"][i].cash = F(0)

\* C8: two runs of the pipeline on the same files return the same feature
\* rows and the same labels in the same order.
C8_SameOutputTwice ==
    (run = 2 /\ pc = "done") => <<features, labels>> = first_output

\* C9: features and labels have the same length, and label k is the category
\* of the price_change of the record whose deltas are in feature row k.
C9_RowLabelAligned ==
    /\ Len(features) = Len(labels)
    /\ \A k \in 1..Len(labels) :
          /\ labels[k] = categorize_price_change(Cur(k).price_change)
          /\ features[k][1] = unwrap(Cur(k).change_in_revenue)
          /\ features[k][2] = unwrap(Cur(k).change_in_profit_margin)
          /\ features[k][3] = unwrap(Cur(k).change_in_roa)

C9_Witness ==
    /\ pc = "done"
    /\ Len(labels) >= 2
    /\ \E k \in 1..Len(labels) :
          /\ labels[k] = 3
          /\ categorize_price_change(Prev(k).price_change) # 3

\* C10: (ticker, year) has a price change exactly when it has an observation
\* with month <= 2 and one with month >= 11; the value is
\* (avg(late) - avg(early)) / avg(early) * 100 over those observations alone;
\* a record whose (ticker, year) has no entry gets price_change 0.0.
ObsOf(file, t, y) ==
    {p \in (1..Len(file.records)) \X (1..Len(file.headers)) :
        /\ file.headers[p[2]] = t
        /\ file.records[p[1]].date.len >= 7
        /\ file.records[p[1]].date.year = y}

EarlyOf(file, t, y) == {p \in ObsOf(file, t, y) : file.records[p[1]].date.month <= 2}
LateOf(file, t, y) == {p \in ObsOf(file, t, y) : file.records[p[1]].date.month >= 11}

RECURSIVE SumOf(_, _)
SumOf(file, obs) ==
    IF obs = {} THEN F(0)
    ELSE LET p == CHOOSE p \in obs : TRUE
         IN  FAdd(ParseF64(file.records[p[1]].prices[p[2]]), SumOf(file, obs \ {p}))

AvgOf(file, obs) == FDiv(SumOf(file, obs), F(Cardinality(obs)))

HasEntry(t, y) == t \in DOMAIN price_changes /\ y \in DOMAIN price_changes[t]

ObservedYears(file) == {file.records[k].date.year : k \in 1..Len(file.records)}

C10_PriceChangeEntries ==
    (input.kind = "files" /\ pc # "start") =>
        LET file == input.price_file
            tickers == {file.headers[j] : j \in 1..Len(file.headers)}
        IN  /\ DOMAIN price_changes \subseteq tickers
            /\ \A t \in DOMAIN price_changes : DOMAIN price_changes[t] \subseteq ObservedYears(file)
            /\ \A t \in tickers :
                  \A y \in ObservedYears(file) :
                      LET early == EarlyOf(file, t, y)
                          late == LateOf(file, t, y)
                      IN  /\ HasEntry(t, y) <=> (early # {} /\ late # {})
                          /\ HasEntry(t, y) =>
                                price_changes[t][y] =
                                    FMul(FDiv(FSub(AvgOf(file, late), AvgOf(file, early)),
                                              AvgOf(file, early)),
                                         F(100))
            /\ \A t \in DOMAIN combined_data :
                  \A i \in 1..Len(combined_data[t]) :
                      LET r == combined_data[t][i]
                      IN  ~HasEntry(r.ticker, r.year) => r.price_change = F(0)

C10_Witness ==
    /\ Returned
    /\ Len(input.price_file.records) = MaxObs
    /\ \E k \in 1..MaxObs :
          /\ input.price_file.records[k].date.year = AnchorYear
          /\ input.price_file.records[k].date.month \in 3..10
    /\ \E k \in 1..MaxObs :
          /\ input.price_file.records[k].date.year = AnchorYear
          /\ input.price_file.records[k].date.month = 2
    /\ HasEntry("A", AnchorYear)
    /\ ~HasEntry("A", AnchorYear - 1)
    /\ \E i \in 1..Len(combined_data["A"]) :
          /\ combined_data["A"][i].year = AnchorYear - 1
          /\ combined_data["A"][i].price_change = F(0)
    /\ \E i \in 1..Len(combined_data["A"]) :
          /\ combined_data["A"][i].year = AnchorYear
          /\ combined_data["A"][i].price_change # F(0)

====
